---- MODULE Spec2Model ----
(***************************************************************************)
(* Form evaluation sagas (app/client/src/sagas/FormEvaluationSaga.ts).     *)
(*                                                                         *)
(* The module-level flag isEvaluating and the module-level array evalQueue *)
(* serialize calls of evalFormConfig; after an evaluation the saga may run *)
(* a cascade that fetches dynamic values and publishes them.  JavaScript   *)
(* runs a saga without interruption between two blocking effects, so one   *)
(* action of this model is the code between two suspension points: the     *)
(* call of evalFormConfig, the race on the readiness actions, delay(500)   *)
(* and the call of PluginsApi.fetchDynamicFormValues.  select, put and     *)
(* fork complete within the step that issues them; each may raise.         *)
(***************************************************************************)
EXTENDS Integers, Sequences, FiniteSets, TLC

\* Bounds of the model.
MaxReq == 4
NumForms == 2
NumKeys == 2

Reqs == 1..MaxReq
Forms == 1..NumForms
Keys == 1..NumKeys

\* response.responseMeta.status === 200
StatusOK == 200
Statuses == {StatusOK, 500}
\* Values of response.data.trigger
Payloads == {<<>>, <<1, 2>>}

VARIABLES
  isEvaluating,   \* let isEvaluating
  evalQueue,      \* const evalQueue, a sequence of request ids
  submitted,      \* number of triggers dispatched so far; request ids are arrival order
  formOf,         \* action.payload.formId of each request
  pc,             \* where the saga of each request is suspended, how it ended, or "missed"
  evalOutput,     \* workerResponse[formId] captured by the cycle of each request
  pending,        \* Object.keys(queueOfValuesToBeFetched) of each cycle
  idx,            \* position of the for loop of fetchDynamicValuesSaga
  fetched,        \* keys for which fetchDynamicValueSaga was called, in call order
  lastOp,         \* what the last step did: flag writes, puts, evaluation calls
  fo,             \* a single call of fetchDynamicValueSaga on its own
  listening,      \* formEvaluationChangeListener has taken START_EVALUATION
  lastEvalPublished, \* per form, the latest request whose result was put at line 85
  stranded        \* a cycle raised before line 90, requests wait, none submitted since

vars == <<isEvaluating, evalQueue, submitted, formOf, pc, evalOutput, pending,
          idx, fetched, lastOp, fo, listening, lastEvalPublished, stranded>>

----------------------------------------------------------------------------
\* DynamicValues and ConditionalOutput

\* A field of FormEvalOutput.  fdv: is the key fetchDynamicValues absent, falsy
\* or an object; allowed: is allowedToFetch absent, false or true; cfg: which
\* parts of config / evaluatedConfig the worker filled in.
NoField == [fdv |-> "absent", allowed |-> "absent", cfg |-> "ok",
            hasStarted |-> FALSE, isLoading |-> FALSE,
            hasFetchFailed |-> FALSE, data |-> <<>>]

FreshDynamicValues(allowed, cfg) ==
  [fdv |-> "object", allowed |-> allowed, cfg |-> cfg,
   hasStarted |-> FALSE, isLoading |-> TRUE,
   hasFetchFailed |-> FALSE, data |-> <<>>]

\* The shapes of a field that extractQueueOfValuesToBeFetched passes over.
UnfetchableFields ==
  { NoField,
    [NoField EXCEPT !.fdv = "falsy"],
    FreshDynamicValues("absent", "ok"),
    FreshDynamicValues("false", "ok") }

\* The fields of an output with something to fetch: not allowed to fetch,
\* allowed, and allowed with a config that has no params.
FetchableFields ==
  { FreshDynamicValues("false", "ok"),
    FreshDynamicValues("true", "ok"),
    FreshDynamicValues("true", "noParams") }

\* The outputs of the evaluation: no field to fetch (in each of the shapes
\* that are passed over), or every field one of FetchableFields.
EvalOutputs ==
  { [k \in Keys |-> u] : u \in UnfetchableFields } \cup [Keys -> FetchableFields]

\* workerResponse: null/undefined, another falsy value, or an object that
\* holds an evaluation output for the form of the request or none.
NoOutput == [k \in {} |-> NoField]
ResponsesWith(outputs) ==
  { [kind |-> "null", out |-> NoOutput], [kind |-> "falsy", out |-> NoOutput],
    [kind |-> "object", out |-> NoOutput] }
  \cup { [kind |-> "object", out |-> o] : o \in outputs }

WorkerResponses == ResponsesWith(EvalOutputs)

\* The outputs drawn when several requests interleave: nothing to fetch, or
\* the first field to fetch.
SequencerOutputs ==
  { [k \in Keys |-> FreshDynamicValues("false", "ok")],
    [k \in Keys |-> FreshDynamicValues(IF k = 1 THEN "true" ELSE "false",
                                        "ok")] }

SequencerResponses == ResponsesWith(SequencerOutputs)

\* Outcomes of PluginsApi.fetchDynamicFormValues: the call raises, or returns
\* a response with a status and a body with or without trigger.
ApiThrew ==
  [kind |-> "threw", status |-> StatusOK, hasTrigger |-> FALSE, trigger |-> <<>>]
ApiResponses ==
  {ApiThrew}
  \cup [kind : {"response"}, status : Statuses, hasTrigger : BOOLEAN, trigger : Payloads]

\* The outcomes drawn when several requests interleave.
SequencerApiResponses ==
  { ApiThrew,
    [kind |-> "response", status |-> StatusOK, hasTrigger |-> TRUE,
     trigger |-> <<1, 2>>] }

----------------------------------------------------------------------------
\* extractQueueOfValuesToBeFetched: the keys of the fields that carry a truthy
\* fetchDynamicValues with a truthy allowedToFetch, in the key order of
\* evalOutput.
KeySeq(eo) == [i \in 1..Cardinality(DOMAIN eo) |-> i]

extractQueueOfValuesToBeFetched(eo) ==
  SelectSeq(KeySeq(eo),
            LAMBDA k : /\ eo[k].fdv # "absent"
                       /\ eo[k].fdv = "object"
                       /\ eo[k].allowed # "absent"
                       /\ eo[k].allowed = "true")

\* The catch block of fetchDynamicValueSaga.
FetchCatch(d) ==
  [d EXCEPT !.hasFetchFailed = TRUE, !.isLoading = FALSE, !.data = <<>>]

\* fetchDynamicValueSaga up to the call of PluginsApi.fetchDynamicFormValues.
\* Destructuring an undefined evaluatedConfig raises before hasStarted is set;
\* "parameters" in config?.params raises after it when config has no params.
fetchDynamicValueSagaCall(value, d) ==
  IF value.cfg = "noEvaluatedConfig"
    THEN [threw |-> TRUE, state |-> FetchCatch(d)]
    ELSE LET started == [d EXCEPT !.hasStarted = TRUE]
         IN IF value.cfg = "noParams"
              THEN [threw |-> TRUE, state |-> FetchCatch(started)]
              ELSE [threw |-> FALSE, state |-> started]

\* As fetchDynamicValueSagaReturn, but any response counts as a success.
fetchDynamicValueSagaReturn_IgnoreStatus(d, response) ==
  IF response.kind = "threw"
    THEN FetchCatch(d)
    ELSE [d EXCEPT !.isLoading = FALSE, !.data = response.trigger,
                   !.hasFetchFailed = FALSE]

\* fetchDynamicValueSaga from the outcome of the backend call to its return.
fetchDynamicValueSagaReturn(d, response) ==
  IF response.kind = "threw"
    THEN FetchCatch(d)
    ELSE LET loaded == [d EXCEPT !.isLoading = FALSE]
         IN IF response.status = StatusOK /\ response.hasTrigger
              THEN [loaded EXCEPT !.data = response.trigger,
                                  !.hasFetchFailed = FALSE]
              ELSE [loaded EXCEPT !.hasFetchFailed = TRUE, !.data = <<>>]

\* As fetchDynamicValuesSaga, but a failed fetch ends the loop.
RECURSIVE fetchDynamicValuesSaga_StopOnFailure(_, _, _, _)
fetchDynamicValuesSaga_StopOnFailure(eo, keys, i, called) ==
  IF i > Len(keys) \/ (i > 1 /\ eo[keys[i - 1]].hasFetchFailed)
    THEN [eo |-> eo, idx |-> i, called |-> called, blocked |-> FALSE]
    ELSE LET k == keys[i]
             c == fetchDynamicValueSagaCall(eo[k], eo[k])
         IN IF c.threw
              THEN fetchDynamicValuesSaga_StopOnFailure(
                     [eo EXCEPT ![k] = c.state], keys, i + 1, Append(called, k))
              ELSE [eo |-> eo, idx |-> i, called |-> Append(called, k),
                    blocked |-> TRUE]

\* The for loop of fetchDynamicValuesSaga from position i on, up to the first
\* key whose fetch suspends on the backend call, or to the end of the keys.
\* A fetch that raises before the backend call returns at once and the loop
\* goes on to the next key.
RECURSIVE fetchDynamicValuesSaga(_, _, _, _)
fetchDynamicValuesSaga(eo, keys, i, called) ==
  IF i > Len(keys)
    THEN [eo |-> eo, idx |-> i, called |-> called, blocked |-> FALSE]
    ELSE LET k == keys[i]
             c == fetchDynamicValueSagaCall(eo[k], eo[k])
         IN IF c.threw
              THEN fetchDynamicValuesSaga([eo EXCEPT ![k] = c.state], keys,
                                          i + 1, Append(called, k))
              ELSE [eo |-> eo, idx |-> i, called |-> Append(called, k),
                    blocked |-> TRUE]

\* As FetchPayload, but the output is published under every form.
FetchPayload_AllForms(formId, eo) == [f \in Forms |-> eo]

\* The payload of the put that ends fetchDynamicValuesSaga: { [formId]: evalOutput }
FetchPayload(formId, eo) == [f \in {formId} |-> eo]

\* A put of SET_FORM_EVALUATION as the log of a step records it.
\* keys and called: the keys to fetch and the keys fetched when the put is made.
PutOf(r, from, forms, eo, keys, called, ok) ==
  [req |-> r, from |-> from, forms |-> forms, out |-> eo, keys |-> keys,
   called |-> called, threw |-> ~ok]

\* As SagaEntry, but a request that finds the flag set is put at the head of
\* the queue.
SagaEntry_QueueAtHead(r, busy, queue, selOk) ==
  IF busy
    THEN [busy |-> busy, queue |-> <<r>> \o queue, pcr |-> "queued",
          flag |-> <<>>, evals |-> <<>>]
    ELSE IF selOk
      THEN [busy |-> TRUE, queue |-> queue, pcr |-> "eval",
            flag |-> <<TRUE>>, evals |-> <<r>>]
      ELSE [busy |-> FALSE, queue |-> queue, pcr |-> "failed",
            flag |-> <<TRUE, FALSE>>, evals |-> <<>>]

\* As SagaEntry, but a request that finds the flag set while others wait is
\* not stored.
SagaEntry_DropWhenWaiting(r, busy, queue, selOk) ==
  IF busy
    THEN [busy |-> busy,
          queue |-> IF Len(queue) > 0 THEN queue ELSE Append(queue, r),
          pcr |-> "queued", flag |-> <<>>, evals |-> <<>>]
    ELSE IF selOk
      THEN [busy |-> TRUE, queue |-> queue, pcr |-> "eval",
            flag |-> <<TRUE>>, evals |-> <<r>>]
      ELSE [busy |-> FALSE, queue |-> queue, pcr |-> "failed",
            flag |-> <<TRUE, FALSE>>, evals |-> <<>>]

\* Entry of setFormEvaluationSagaAsync up to its first suspension: queue the
\* request when the flag is set, else set the flag, read the state and call
\* evalFormConfig; a select that raises goes to the catch block.
SagaEntry(r, busy, queue, selOk) ==
  IF busy
    THEN [busy |-> busy, queue |-> Append(queue, r), pcr |-> "queued",
          flag |-> <<>>, evals |-> <<>>]
    ELSE IF selOk
      THEN [busy |-> TRUE, queue |-> queue, pcr |-> "eval",
            flag |-> <<TRUE>>, evals |-> <<r>>]
      ELSE [busy |-> FALSE, queue |-> queue, pcr |-> "failed",
            flag |-> <<TRUE, FALSE>>, evals |-> <<>>]

\* As AfterEvaluation, but the cascade is run also when requests are waiting.
AfterEvaluation_CascadeFirst(queue, resp) ==
  IF resp.kind = "object" /\ resp.out # NoOutput THEN "cascade"
  ELSE IF Len(queue) > 0 THEN "fork"
  ELSE IF resp.kind = "null" THEN "throw"
  ELSE "end"

\* As AfterEvaluation, but a falsy workerResponse leaves the queue alone.
AfterEvaluation_FalsyEnds(queue, resp) ==
  IF resp.kind = "null" THEN "throw"
  ELSE IF resp.kind = "falsy" THEN "end"
  ELSE IF Len(queue) > 0 THEN "fork"
  ELSE IF resp.out # NoOutput THEN "cascade"
  ELSE "end"

\* Lines 92 to 101: what the saga does once the result is published and the
\* flag reset.  "fork": shift the queue and fork the next cycle; "throw":
\* workerResponse[formId] raises on null/undefined; "cascade": wait for the
\* data tree, then fetch; "end": nothing more.
AfterEvaluation(queue, resp) ==
  IF Len(queue) > 0 THEN "fork"
  ELSE IF resp.kind = "null" THEN "throw"
  ELSE IF resp.kind = "object" /\ resp.out # NoOutput THEN "cascade"
  ELSE "end"

\* Lines 84 to 89: the puts of the result, none when workerResponse is falsy.
EvalPuts(r, resp, putOk) ==
  IF resp.kind = "object"
    THEN <<PutOf(r, "eval", Forms, resp.out, <<>>, <<>>, putOk)>>
    ELSE <<>>

NoOp == [op |-> "init", req |-> 0, resp |-> "", waiting |-> 0, flag |-> <<>>,
         puts |-> <<>>, evals |-> <<>>]

\* The log of a step of the saga of request r.
Log(op, r, resp, flag, puts, evals) ==
  [op |-> op, req |-> r, resp |-> resp, waiting |-> Len(evalQueue),
   flag |-> flag, puts |-> puts, evals |-> evals]

\* JavaScript values met by the parameter substitution of
\* fetchDynamicValueSaga: a type with the text of the value, a string being
\* the sequence of its tokens so that binding delimiters can be searched for.
Undefined == [type |-> "undefined", text |-> <<>>]
Zero == [type |-> "number", text |-> <<"0">>]
False == [type |-> "boolean", text |-> <<"false">>]
EmptyString == [type |-> "string", text |-> <<>>]
PlainString == [type |-> "string", text |-> <<"sheet1">>]
BindingString == [type |-> "string", text |-> <<"{{", "Input1.text", "}}">>]

\* What get(evalAction.__evaluation__.evaluatedValues, path) can return, and
\* what a parameter of evaluatedConfig.params.parameters can hold.
EvaluatedValues ==
  {Undefined, Zero, False, EmptyString, PlainString, BindingString}
ConfigValues == {PlainString, BindingString}

\* The keys of config.params.parameters.
ParamKeys == {"sheetUrl", "sheetName"}

\* !!v
Truthy(v) ==
  CASE v.type = "undefined" -> FALSE
    [] v.type = "number" -> v.text # <<"0">>
    [] v.type = "boolean" -> v.text = <<"true">>
    [] OTHER -> v.text # <<>>

\* isDynamicValue: the text of the value holds an opening delimiter followed
\* by a closing one.
isDynamicValue(v) ==
  \E i, j \in DOMAIN v.text : i < j /\ v.text[i] = "{{" /\ v.text[j] = "}}"

\* What fetchDynamicValueSaga reads besides value: whether config.params has
\* parameters, whether the action is found in the data tree, the evaluated
\* value at the translated path of every parameter, and whether
\* evaluatedConfig.params has parameters, with their values.
ParamEnvs ==
  [configHasParameters : BOOLEAN, found : BOOLEAN,
   evaluatedAt : [ParamKeys -> EvaluatedValues],
   paramsHasParameters : BOOLEAN, parameters : [ParamKeys -> ConfigValues]]

NoEnv ==
  [configHasParameters |-> FALSE, found |-> FALSE,
   evaluatedAt |-> [k \in ParamKeys |-> Undefined],
   paramsHasParameters |-> FALSE,
   parameters |-> [k \in ParamKeys |-> PlainString]]

NoParameters == [k \in {} |-> Undefined]
NoBody == [hasParameters |-> FALSE, parameters |-> NoParameters]

\* substitutedParameters as the forEach over config.params.parameters leaves
\* it: a key is stored when the evaluated value is truthy, as the empty
\* string when that value is a dynamic binding.
substitutedParameters(env) ==
  IF env.configHasParameters /\ env.found
    THEN [k \in {p \in ParamKeys : Truthy(env.evaluatedAt[p])} |->
            IF isDynamicValue(env.evaluatedAt[k])
              THEN EmptyString ELSE env.evaluatedAt[k]]
    ELSE NoParameters

\* evaluatedParams: params with the substituted parameters spread over
\* params.parameters when params has that key, params alone otherwise.
evaluatedParams(env, substituted) ==
  IF env.paramsHasParameters
    THEN [hasParameters |-> TRUE,
          parameters |-> [k \in ParamKeys |->
                            IF k \in DOMAIN substituted
                              THEN substituted[k] ELSE env.parameters[k]]]
    ELSE NoBody

\* The cycles suspended on an effect: evalFormConfig, the race, the delay or
\* a backend call.
Running == { r \in Reqs : pc[r] \in {"eval", "race", "delay", "fetch"} }

\* As formEvaluationChangeListener, but the listener waits for the cycle it
\* launched to end before it takes the next trigger.
formEvaluationChangeListener_Blocking(started, running) ==
  started /\ running = {}

\* Is the listener at take(FORM_EVALUATION_REDUX_ACTIONS)?  It is from
\* START_EVALUATION on: fork returns when the cycle suspends, whatever cycles
\* are running.
formEvaluationChangeListener(started, running) ==
  started

FoIdle == [stage |-> "idle", value |-> NoField, input |-> NoField,
           state |-> NoField, threw |-> FALSE, response |-> ApiThrew,
           env |-> NoEnv, substituted |-> NoParameters, body |-> NoBody]

SequencerInit ==
  /\ isEvaluating = FALSE
  /\ evalQueue = <<>>
  /\ submitted = 0
  /\ formOf = [r \in Reqs |-> 0]
  /\ pc = [r \in Reqs |-> "new"]
  /\ evalOutput = [r \in Reqs |-> NoOutput]
  /\ pending = [r \in Reqs |-> <<>>]
  /\ idx = [r \in Reqs |-> 0]
  /\ fetched = [r \in Reqs |-> <<>>]
  /\ lastOp = NoOp
  /\ listening = FALSE
  /\ lastEvalPublished = [f \in Forms |-> 0]
  /\ stranded = FALSE

Init == SequencerInit /\ fo = FoIdle

\* formEvaluationChangeListener takes START_EVALUATION and enters its loop.
StartEvaluation ==
  /\ ~listening
  /\ listening' = TRUE
  /\ lastOp' = Log("start", 0, "", <<>>, <<>>, <<>>)
  /\ UNCHANGED <<isEvaluating, evalQueue, submitted, formOf, pc, evalOutput,
                 pending, idx, fetched, fo, lastEvalPublished, stranded>>

\* A trigger action on form f is dispatched.  When the listener is at its
\* take, formEvaluationChangeListenerSaga forks setFormEvaluationSagaAsync for
\* it; otherwise no saga takes the action.
Submit(f, selOk) ==
  /\ submitted < MaxReq
  /\ LET r == submitted + 1
         e == SagaEntry(r, isEvaluating, evalQueue, selOk)
     IN /\ submitted' = r
        /\ formOf' = [formOf EXCEPT ![r] = f]
        /\ IF formEvaluationChangeListener(listening, Running)
             THEN /\ isEvaluating' = e.busy
                  /\ evalQueue' = e.queue
                  /\ pc' = [pc EXCEPT ![r] = e.pcr]
                  /\ lastOp' = Log("submit", r, "", e.flag, <<>>, e.evals)
                  /\ stranded' = (e.pcr = "failed" /\ e.queue # <<>>)
             ELSE /\ pc' = [pc EXCEPT ![r] = "missed"]
                  /\ lastOp' = Log("missed", r, "", <<>>, <<>>, <<>>)
                  /\ UNCHANGED <<isEvaluating, evalQueue, stranded>>
  /\ UNCHANGED <<evalOutput, pending, idx, fetched, fo, listening,
                 lastEvalPublished>>

\* evalFormConfig raises: the catch block resets the flag.
EvalThrow(r) ==
  /\ pc[r] = "eval"
  /\ isEvaluating' = FALSE
  /\ pc' = [pc EXCEPT ![r] = "failed"]
  /\ lastOp' = Log("evalThrow", r, "", <<FALSE>>, <<>>, <<>>)
  /\ stranded' = (evalQueue # <<>>)
  /\ UNCHANGED <<evalQueue, submitted, formOf, evalOutput, pending, idx,
                 fetched, fo, listening, lastEvalPublished>>

\* evalFormConfig returns workerResponse: lines 84 to 112.
EvalReturn(r, resp, putOk, selOk) ==
  /\ pc[r] = "eval"
  /\ LET puts == EvalPuts(r, resp, putOk)
         branch == AfterEvaluation(evalQueue, resp)
         log(flag, evals) == Log("evalReturn", r, resp.kind, flag, puts, evals)
     IN IF puts # <<>> /\ ~putOk
          THEN \* the put raises: catch
            /\ isEvaluating' = FALSE
            /\ pc' = [pc EXCEPT ![r] = "failed"]
            /\ lastOp' = log(<<FALSE>>, <<>>)
            /\ stranded' = (evalQueue # <<>>)
            /\ UNCHANGED <<evalQueue, evalOutput, pending>>
          ELSE IF branch = "fork"
            THEN LET n == Head(evalQueue)
                     e == SagaEntry(n, FALSE, Tail(evalQueue), selOk)
                 IN /\ isEvaluating' = e.busy
                    /\ evalQueue' = e.queue
                    /\ pc' = [pc EXCEPT ![r] = "done", ![n] = e.pcr]
                    /\ lastOp' = log(<<FALSE>> \o e.flag, e.evals)
                    /\ stranded' = /\ e.queue # <<>>
                                   /\ (stranded \/ e.pcr = "failed")
                    /\ UNCHANGED <<evalOutput, pending>>
            ELSE IF branch = "throw"
              THEN /\ isEvaluating' = FALSE
                   /\ pc' = [pc EXCEPT ![r] = "failed"]
                   /\ lastOp' = log(<<FALSE, FALSE>>, <<>>)
                   /\ UNCHANGED <<evalQueue, evalOutput, pending, stranded>>
              ELSE IF branch = "cascade"
                THEN /\ isEvaluating' = FALSE
                     /\ pc' = [pc EXCEPT ![r] = "race"]
                     /\ evalOutput' = [evalOutput EXCEPT ![r] = resp.out]
                     /\ pending' = [pending EXCEPT
                          ![r] = extractQueueOfValuesToBeFetched(resp.out)]
                     /\ lastOp' = log(<<FALSE>>, <<>>)
                     /\ UNCHANGED <<evalQueue, stranded>>
                ELSE /\ isEvaluating' = FALSE
                     /\ pc' = [pc EXCEPT ![r] = "done"]
                     /\ lastOp' = log(<<FALSE>>, <<>>)
                     /\ UNCHANGED <<evalQueue, evalOutput, pending, stranded>>
  /\ lastEvalPublished' =
       IF resp.kind = "object" /\ putOk
         THEN [lastEvalPublished EXCEPT
                 ![formOf[r]] = IF @ > r THEN @ ELSE r]
         ELSE lastEvalPublished
  /\ UNCHANGED <<submitted, formOf, idx, fetched, fo, listening>>

\* The readiness race of line 107 is over.
Ready(r) ==
  /\ pc[r] = "race"
  /\ pc' = [pc EXCEPT ![r] = "delay"]
  /\ lastOp' = Log("ready", r, "", <<>>, <<>>, <<>>)
  /\ UNCHANGED <<isEvaluating, evalQueue, submitted, formOf, evalOutput,
                 pending, idx, fetched, fo, listening, lastEvalPublished,
                 stranded>>

\* fetchDynamicValuesSaga of cycle r goes on from position i with the output
\* eo: it suspends on the next backend call, or ends with the put of line 152.
\* A put that raises is caught at line 125, which resets the flag.  The
\* objects of a saga that has ended are garbage: its variables are cleared.
Cascade(r, op, eo, i, putOk) ==
  LET run == fetchDynamicValuesSaga(eo, pending[r], i, fetched[r])
      payload == FetchPayload(formOf[r], run.eo)
      put == PutOf(r, "fetch", DOMAIN payload, payload[formOf[r]],
                   pending[r], run.called, putOk)
  IN /\ IF run.blocked
          THEN /\ pc' = [pc EXCEPT ![r] = "fetch"]
               /\ evalOutput' = [evalOutput EXCEPT ![r] = run.eo]
               /\ idx' = [idx EXCEPT ![r] = run.idx]
               /\ fetched' = [fetched EXCEPT ![r] = run.called]
               /\ lastOp' = Log(op, r, "", <<>>, <<>>, <<>>)
               /\ UNCHANGED <<isEvaluating, pending>>
          ELSE /\ evalOutput' = [evalOutput EXCEPT ![r] = NoOutput]
               /\ idx' = [idx EXCEPT ![r] = 0]
               /\ fetched' = [fetched EXCEPT ![r] = <<>>]
               /\ pending' = [pending EXCEPT ![r] = <<>>]
               /\ IF putOk
                    THEN /\ pc' = [pc EXCEPT ![r] = "done"]
                         /\ lastOp' = Log(op, r, "", <<>>, <<put>>, <<>>)
                         /\ UNCHANGED isEvaluating
                    ELSE /\ pc' = [pc EXCEPT ![r] = "failed"]
                         /\ lastOp' = Log(op, r, "", <<FALSE>>, <<put>>, <<>>)
                         /\ isEvaluating' = FALSE
     /\ UNCHANGED <<evalQueue, submitted, formOf, fo, listening,
                    lastEvalPublished, stranded>>

\* delay(500) is over: fetchDynamicValuesSaga is called.
Settle(r, putOk) ==
  /\ pc[r] = "delay"
  /\ Cascade(r, "settle", evalOutput[r], 1, putOk)

\* The backend call of the fetch of key pending[r][idx[r]] ends with response:
\* evalOutput[key].fetchDynamicValues is overwritten and the loop goes on.
FetchReturn(r, response, putOk) ==
  /\ pc[r] = "fetch"
  /\ LET k == pending[r][idx[r]]
         d == fetchDynamicValueSagaCall(evalOutput[r][k], evalOutput[r][k]).state
         eo == [evalOutput[r] EXCEPT ![k] = fetchDynamicValueSagaReturn(d, response)]
     IN Cascade(r, "fetchReturn", eo, idx[r] + 1, putOk)

\* Several requests for one form interleave.
Next ==
  \/ StartEvaluation
  \/ \E selOk \in BOOLEAN : Submit(1, selOk)
  \/ \E r \in Reqs : EvalThrow(r)
  \/ \E r \in Reqs, resp \in SequencerResponses, putOk, selOk \in BOOLEAN :
       EvalReturn(r, resp, putOk, selOk)
  \/ \E r \in Reqs : Ready(r)
  \/ \E r \in Reqs, putOk \in BOOLEAN : Settle(r, putOk)
  \/ \E r \in Reqs, response \in SequencerApiResponses, putOk \in BOOLEAN :
       FetchReturn(r, response, putOk)

Spec == Init /\ [][Next]_vars

\* Every call of evalFormConfig returns or raises in the end.
EvalEnds(r) ==
  \/ EvalThrow(r)
  \/ \E resp \in SequencerResponses, putOk, selOk \in BOOLEAN :
       EvalReturn(r, resp, putOk, selOk)

SpecLive == Spec /\ \A r \in Reqs : WF_vars(EvalEnds(r))

\* One request on any form, with every output and every backend outcome.
NextFetcher ==
  \/ StartEvaluation
  \/ \E f \in Forms : listening /\ submitted = 0 /\ Submit(f, TRUE)
  \/ \E resp \in WorkerResponses, putOk \in BOOLEAN : EvalReturn(1, resp, putOk, TRUE)
  \/ Ready(1)
  \/ \E putOk \in BOOLEAN : Settle(1, putOk)
  \/ \E response \in ApiResponses, putOk \in BOOLEAN : FetchReturn(1, response, putOk)

SpecFetcher == Init /\ [][NextFetcher]_vars

\* A single call of fetchDynamicValueSaga: value is a field that is allowed to
\* fetch, with any config, and dynamicFetchedValues any DynamicValues.
FetchOneInputs ==
  [fdv : {"object"}, allowed : {"true"},
   cfg : {"ok", "noEvaluatedConfig", "noParams"},
   hasStarted : BOOLEAN, isLoading : BOOLEAN, hasFetchFailed : BOOLEAN,
   data : Payloads]

InitFetchOne ==
  /\ SequencerInit
  /\ fo \in { [stage |-> "input", value |-> v, input |-> v, state |-> v,
               threw |-> FALSE, response |-> ApiThrew, env |-> NoEnv,
               substituted |-> NoParameters, body |-> NoBody] :
               v \in FetchOneInputs }

\* Lines 166 to 252: up to the backend call, or to the catch block.
FetchOneCall ==
  /\ fo.stage = "input"
  /\ LET c == fetchDynamicValueSagaCall(fo.value, fo.state)
         s == substitutedParameters(fo.env)
     IN fo' = [fo EXCEPT !.stage = IF c.threw THEN "returned" ELSE "called",
                         !.state = c.state, !.threw = c.threw,
                         !.substituted = IF c.threw THEN NoParameters ELSE s,
                         !.body = IF c.threw THEN NoBody
                                  ELSE evaluatedParams(fo.env, s)]
  /\ UNCHANGED <<isEvaluating, evalQueue, submitted, formOf, pc, evalOutput,
                 pending, idx, fetched, lastOp, listening, lastEvalPublished,
                 stranded>>

\* Lines 253 to 267: the backend call ends with response.
FetchOneReturn(response) ==
  /\ fo.stage = "called"
  /\ fo' = [fo EXCEPT !.stage = "returned", !.response = response,
                      !.state = fetchDynamicValueSagaReturn(fo.state, response)]
  /\ UNCHANGED <<isEvaluating, evalQueue, submitted, formOf, pc, evalOutput,
                 pending, idx, fetched, lastOp, listening, lastEvalPublished,
                 stranded>>

NextFetchOne ==
  \/ FetchOneCall
  \/ \E response \in ApiResponses : FetchOneReturn(response)

SpecFetchOne == InitFetchOne /\ [][NextFetchOne]_vars

\* A single call of fetchDynamicValueSaga for a field whose config and
\* evaluatedConfig both have params, in every environment of ParamEnvs.
InitParams ==
  /\ SequencerInit
  /\ fo \in { [stage |-> "input", value |-> FreshDynamicValues("true", "ok"),
               input |-> FreshDynamicValues("true", "ok"),
               state |-> FreshDynamicValues("true", "ok"),
               threw |-> FALSE, response |-> ApiThrew, env |-> e,
               substituted |-> NoParameters, body |-> NoBody] :
               e \in ParamEnvs }

SpecParams == InitParams /\ [][NextFetchOne]_vars

----------------------------------------------------------------------------
\* Properties

InFlight == { r \in Reqs : pc[r] = "eval" }
ActivePcs == {"eval", "race", "delay", "fetch"}
CascadePcs == {"race", "delay", "fetch"}
SeqToSet(q) == { q[i] : i \in 1..Len(q) }
FetchPuts == { lastOp.puts[i] : i \in { j \in 1..Len(lastOp.puts) :
                                        lastOp.puts[j].from = "fetch" } }
HasFetchable(out) ==
  out # NoOutput /\ extractQueueOfValuesToBeFetched(out) # <<>>

\* C1: at most one call of evalFormConfig is in flight at any instant.
C1_MutualExclusion == Cardinality(InFlight) <= 1

\* C2: FIFO: a request submitted before another one starts its evaluation
\* first, so when the evaluation of a request starts no earlier request waits
\* in evalQueue.
C2_FifoOrder ==
  \A b \in SeqToSet(lastOp.evals) :
    \A a \in Reqs : a < b => pc[a] # "queued"

\* C3: every request appended to evalQueue is eventually dequeued (the first
\* half of "dequeued and passed to the evaluation function"), given that
\* every evaluation call returns or raises and no further request arrives.
C3_QueuedEventuallyEvaluated ==
  \A r \in Reqs : (pc[r] = "queued") ~> (pc[r] # "queued")

\* C4: no request starts its evaluation while another request is between the
\* start of its evaluation and the end of its fetch cascade.
C4_CycleSerialized ==
  \A n \in SeqToSet(lastOp.evals) :
    \A r \in Reqs \ {n} : pc[r] \notin ActivePcs

\* C5 as stated: a request whose evaluation succeeds with a field to fetch
\* goes on to its fetch cascade before the next queued request begins, also
\* when requests are waiting.
C5_Case ==
  /\ lastOp.op = "evalReturn"
  /\ lastOp.puts # <<>>
  /\ ~lastOp.puts[1].threw
  /\ HasFetchable(lastOp.puts[1].out)

C6_NoFetcherWithoutFields ==
  /\ \A r \in Reqs : pc[r] \in CascadePcs => pending[r] # <<>>
  /\ \A p \in FetchPuts : p.keys # <<>>

\* C7: a falsy workerResponse publishes nothing, resets the flag, and when
\* evalQueue is non-empty its oldest entry is removed and started.
C7_Case(r) ==
  /\ pc[r] = "eval"
  /\ lastOp'.op = "evalReturn"
  /\ lastOp'.req = r
  /\ lastOp'.resp \in {"null", "falsy"}

C7_FalsyResponseDrains ==
  [][\A r \in Reqs : C7_Case(r) =>
       /\ lastOp'.puts = <<>>
       /\ lastOp'.flag # <<>>
       /\ lastOp'.flag[1] = FALSE
       /\ IF evalQueue # <<>>
            THEN /\ evalQueue' = Tail(evalQueue)
                 /\ pc[Head(evalQueue)] = "queued"
                 /\ \/ /\ pc'[Head(evalQueue)] = "eval"
                       /\ lastOp'.evals = <<Head(evalQueue)>>
                       /\ isEvaluating'
                    \/ /\ pc'[Head(evalQueue)] = "failed"
                       /\ lastOp'.evals = <<>>
                       /\ ~isEvaluating'
            ELSE /\ evalQueue' = evalQueue
                 /\ ~isEvaluating']_vars

C7_Witness ==
  /\ lastOp.op = "evalReturn"
  /\ lastOp.resp \in {"null", "falsy"}
  /\ lastOp.waiting > 1
  /\ lastOp.evals # <<>>

\* C8: every pending key is fetched in key order whatever the outcome of the
\* fetches before it, and the put of the batch is made whenever the loop ends.
C8_FailureIsolation ==
  /\ \A r \in Reqs :
       pc[r] = "fetch" => fetched[r] = SubSeq(pending[r], 1, idx[r])
  /\ \A p \in FetchPuts : p.called = p.keys
  /\ lastOp.op \in {"settle", "fetchReturn"} =>
       (pc[lastOp.req] = "fetch" \/ Cardinality(FetchPuts) = 1)

C8_Witness ==
  \E p \in FetchPuts :
    /\ p.called = p.keys
    /\ \E i \in 1..(Len(p.keys) - 1) : p.out[p.keys[i]].hasFetchFailed

\* C9: a call of fetchDynamicValuesSaga makes exactly one put, after every
\* pending key is overwritten with the result of its fetch, none between two
\* fetches, and the payload holds the entry of the form alone.
C9_OnePublishAfterAll ==
  lastOp.op \in {"settle", "fetchReturn"} =>
    IF pc[lastOp.req] = "fetch"
      THEN lastOp.puts = <<>>
      ELSE /\ Len(lastOp.puts) = 1
           /\ LET p == lastOp.puts[1]
              IN /\ p.from = "fetch"
                 /\ p.forms = {formOf[lastOp.req]}
                 /\ p.called = p.keys
                 /\ \A k \in SeqToSet(p.keys) :
                      /\ ~p.out[k].isLoading
                      /\ p.out[k].hasFetchFailed \/ p.out[k].hasStarted

C9_Witness ==
  \E p \in FetchPuts :
    /\ Len(p.keys) > 1
    /\ ~p.threw
    /\ \E k \in SeqToSet(p.keys) : p.out[k].data # <<>>

\* C10: fetchDynamicValueSaga returns isLoading = false and either the trigger
\* payload with hasFetchFailed = false, exactly when the response has status
\* 200 and a trigger field, or data = [] with hasFetchFailed = true.
FetchSucceeded ==
  /\ ~fo.threw
  /\ fo.response.kind = "response"
  /\ fo.response.status = StatusOK
  /\ fo.response.hasTrigger

C10_TerminalShape ==
  fo.stage = "returned" =>
    /\ ~fo.state.isLoading
    /\ IF FetchSucceeded
         THEN ~fo.state.hasFetchFailed /\ fo.state.data = fo.response.trigger
         ELSE fo.state.hasFetchFailed /\ fo.state.data = <<>>

C10_Witness ==
  /\ fo.stage = "returned"
  /\ fo.input.isLoading
  /\ fo.input.data # <<>>
  /\ ~fo.input.hasFetchFailed
  /\ fo.response.kind = "response"
  /\ fo.response.status # StatusOK
  /\ fo.response.hasTrigger

\* C11: whatever hasStarted was in the DynamicValues passed in, the
\* DynamicValues that fetchDynamicValueSaga returns has hasStarted true, on the
\* success path and on every path through the catch block.
C11_HasStartedOnReturn ==
  fo.stage = "returned" => fo.state.hasStarted

\* C12: when config.params has parameters and the action is found, every
\* declared key whose evaluated value exists and is no dynamic binding is
\* substituted by that value, falsy values included; a key with no value at
\* its path is left out; a key whose value is a dynamic binding is substituted
\* by the empty string.
C12_Substitution ==
  (fo.stage # "input" /\ ~fo.threw /\ fo.env.configHasParameters
     /\ fo.env.found) =>
    \A k \in ParamKeys :
      LET v == fo.env.evaluatedAt[k]
      IN IF v = Undefined
           THEN k \notin DOMAIN fo.substituted
           ELSE /\ k \in DOMAIN fo.substituted
                /\ fo.substituted[k] = IF isDynamicValue(v) THEN EmptyString
                                                               ELSE v

\* C13: the parameters handed to PluginsApi.fetchDynamicFormValues hold no
\* dynamic binding, whether or not the action is found, whether or not a
\* value exists at a parameter's path, and whether or not
\* evaluatedConfig.params has parameters.
C13_NoBindingSent ==
  (fo.stage # "input" /\ ~fo.threw) =>
    \A k \in DOMAIN fo.body.parameters : ~isDynamicValue(fo.body.parameters[k])

\* C16: a step in which setFormEvaluationSagaAsync is entered with the flag
\* set does nothing but append the request at the tail of evalQueue: the flag
\* and the other cycles are as they were, evalFormConfig is not called and
\* nothing is put.
C16_SubmitWhileBusy ==
  [][(lastOp'.op = "submit" /\ isEvaluating) =>
       /\ evalQueue' = Append(evalQueue, lastOp'.req)
       /\ isEvaluating' = isEvaluating
       /\ lastOp'.flag = <<>>
       /\ lastOp'.evals = <<>>
       /\ lastOp'.puts = <<>>
       /\ \A q \in Reqs \ {lastOp'.req} : pc'[q] = pc[q]
       /\ InFlight' = InFlight
       /\ UNCHANGED <<evalOutput, pending, idx, fetched>>]_vars

C16_Witness ==
  /\ lastOp.op = "submit"
  /\ lastOp.waiting >= 1
  /\ pc[lastOp.req] = "queued"
  /\ isEvaluating
  /\ Len(evalQueue) = lastOp.waiting + 1
  /\ evalQueue[Len(evalQueue)] = lastOp.req

\* C17: at most one call of PluginsApi.fetchDynamicFormValues is outstanding,
\* over the keys of a batch and over the cascades of all requests.
C17_OneFetchOutstanding ==
  Cardinality({r \in Reqs : pc[r] = "fetch"}) <= 1

\* C19: whenever a call of evalFormConfig is in flight the flag is set; the
\* catch block of a cycle that fails in its cascade does not clear the flag
\* under the evaluation of another cycle.
C19_BusyWhileEvaluating ==
  InFlight # {} => isEvaluating

\* C20: every submitted request is waiting in evalQueue, or being evaluated,
\* or finished, and in one of these places only; evalQueue holds no request
\* twice; evalFormConfig is called for a request that was not started before,
\* a started request is never waiting again, and a request leaves evalQueue
\* from its head, by being started.
C20_Places ==
  /\ \A r \in Reqs :
       /\ r <= submitted <=> pc[r] # "new"
       /\ r \in SeqToSet(evalQueue) <=> pc[r] = "queued"
  /\ \A i, j \in DOMAIN evalQueue : i # j => evalQueue[i] # evalQueue[j]

C20_QueueConservation ==
  [][/\ C20_Places'
     /\ \A r \in Reqs :
          /\ r \in SeqToSet(lastOp'.evals) => pc[r] \in {"new", "queued"}
          /\ pc[r] \notin {"new", "queued"} => pc'[r] \notin {"new", "queued"}
          /\ (r \in SeqToSet(evalQueue) /\ r \notin SeqToSet(evalQueue')) =>
               /\ r = Head(evalQueue)
               /\ evalQueue' = Tail(evalQueue)
               /\ pc'[r] \in {"eval", "failed"}]_vars

C20_Witness ==
  /\ lastOp.op = "evalReturn"
  /\ lastOp.waiting = 2
  /\ Len(evalQueue) = 1
  /\ \E r \in Reqs : pc[r] = "eval" /\ lastOp.evals = <<r>>
  /\ pc[lastOp.req] = "done"

\* C15: no cycle is launched before START_EVALUATION is taken; from then on
\* every trigger dispatched launches one cycle in the step of its dispatch,
\* whatever cycles are running, and is never left untaken.
C15_ListenerTakesEveryTrigger ==
  [][/\ ~listening' => \A r \in Reqs : pc'[r] \in {"new", "missed"}
     /\ (listening /\ submitted' # submitted) =>
          /\ lastOp'.op = "submit"
          /\ lastOp'.req = submitted'
          /\ pc'[submitted'] \in {"eval", "queued", "failed"}
          /\ \A q \in Reqs \ {submitted'} : pc'[q] = pc[q]]_vars

C15_Witness ==
  /\ listening
  /\ lastOp.op = "submit"
  /\ pc[lastOp.req] \in {"eval", "queued"}
  /\ Running \ {lastOp.req} # {}
  /\ \E r \in Reqs : pc[r] = "missed"

\* C18: the put of line 152 of a request is never made after the evaluation
\* result of a later request for the same form has been put at line 85.
C18_NoStaleOverwrite ==
  \A p \in FetchPuts :
    ~p.threw => lastEvalPublished[formOf[p.req]] <= p.req

\* C14: a step in which the select of line 75, evalFormConfig or the put of
\* line 85 raises ends with the flag false and with evalQueue as that cycle
\* found it, no waiting request started; and from then on, as long as no
\* trigger is taken by the listener, no waiting request leaves evalQueue.
C14_RaisedBeforeReset ==
  \/ lastOp'.op = "evalThrow"
  \/ lastOp'.op = "submit" /\ pc'[lastOp'.req] = "failed"
  \/ lastOp'.op = "evalReturn" /\ lastOp'.puts # <<>> /\ lastOp'.puts[1].threw

C14_ErrorLeavesQueue ==
  [][/\ C14_RaisedBeforeReset =>
          /\ ~isEvaluating'
          /\ evalQueue' = evalQueue
          /\ lastOp'.evals = <<>>
     /\ (lastOp'.op = "evalReturn" /\ lastOp'.flag = <<FALSE, TRUE, FALSE>>) =>
          \* the select of the cycle forked at line 95 raises
          /\ ~isEvaluating'
          /\ evalQueue' = Tail(evalQueue)
          /\ lastOp'.evals = <<>>
     /\ (stranded /\ lastOp'.op # "submit") =>
          /\ evalQueue' = evalQueue
          /\ lastOp'.evals = <<>>]_vars

====
